---- MODULE Spec2Model ----
(***************************************************************************)
(* aws-access-keys-id-lister: the concurrent multi-account enumeration     *)
(* engine of main.go (main and application.worker) together with the       *)
(* account-list reader and the report writer of the csv helpers.           *)
(*                                                                         *)
(* The main goroutine reads the account list, assumes each role, lists the *)
(* IAM users of each account page by page, starts numOfWorker workers,     *)
(* puts every user on the buffered channel inputUserChan, closes it, reads *)
(* numberOfUsers values from the unbuffered channel resultChan and writes  *)
(* the report.  Every worker ranges over inputUserChan, lists the access   *)
(* keys of each user and sends one value on resultChan.  Any failing       *)
(* remote call ends the process (logger.Fatal / log.Fatalf).               *)
(***************************************************************************)
EXTENDS Integers, Sequences, FiniteSets, TLC

(***************************************************************************)
(* Bounds of the model.                                                    *)
(***************************************************************************)
MaxWorkers == 2      \* worker counts 0..MaxWorkers
MaxAccounts == 3     \* records in the account list file
MaxUsers == 2        \* IAM users of the account whose listing is varied
MaxUserPages == 2    \* pages of a ListUsers traversal
MaxKeyPages == 3     \* pages of a ListAccessKeys traversal
MaxKeysPerPage == 2  \* access keys on one page

(***************************************************************************)
(* Helpers on sequences.                                                   *)
(***************************************************************************)
Range(s) == {s[i] : i \in 1..Len(s)}

RECURSIVE Flatten(_)
Flatten(ss) == IF ss = <<>> THEN <<>> ELSE Head(ss) \o Flatten(Tail(ss))

RECURSIVE SeqsUpTo(_, _)
SeqsUpTo(S, n) ==
    IF n = 0 THEN {<<>>}
    ELSE LET shorter == SeqsUpTo(S, n - 1)
         IN  shorter \cup {Append(s, x) : s \in {t \in shorter : Len(t) = n - 1}, x \in S}

RECURSIVE SumSeq(_)
SumSeq(s) == IF s = <<>> THEN 0 ELSE Head(s) + SumSeq(Tail(s))

(***************************************************************************)
(* The csv helpers (account list reader, ARN formatting, report writer).   *)
(***************************************************************************)
\* A validation without the case len(accountId) != 12.
validateCSVAccountRoleDataLoose(record) ==
    IF record = <<>> THEN "empty"
    ELSE IF Len(record) # 2 THEN "columns"
    ELSE "ok"

\* fmt.Errorf results are modelled by their kind; "ok" is the nil error.
validateCSVAccountRoleData(record) ==
    IF record = <<>> THEN "empty"
    ELSE IF Len(record) # 2 THEN "columns"
    ELSE IF Len(record[1]) # 12 THEN "length"
    ELSE "ok"

\* csv.Reader.Read with FieldsPerRecord = 0: the first record fixes the
\* number of fields, a later record with another number is a ParseError.
csvRead(records, i) ==
    IF Len(records[i]) # Len(records[1]) THEN "parse" ELSE "ok"

\* The loop of getAccountRoleListFromCSV over the records of the file from
\* record i on: [err, list].
RECURSIVE readFrom(_, _, _)
readFrom(records, i, acc) ==
    IF i > Len(records) THEN [err |-> "ok", list |-> acc]
    ELSE IF csvRead(records, i) # "ok" THEN [err |-> csvRead(records, i), list |-> <<>>]
    ELSE IF validateCSVAccountRoleData(records[i]) # "ok"
         THEN [err |-> validateCSVAccountRoleData(records[i]), list |-> <<>>]
    ELSE readFrom(records, i + 1, Append(acc, records[i]))

getAccountRoleListFromCSV(records) == readFrom(records, 1, <<>>)

getRoleARN(accountRoleData) ==
    "arn:aws:iam::" \o accountRoleData[1] \o ":role/" \o accountRoleData[2]

getAccountId(accountRoleData) == accountRoleData[1]

\* time.Time.Format("2006-01-02T15:04:05-07:00") of an instant given by its
\* calendar date, wall clock and zone offset.
Format(t) == t.date \o "T" \o t.clock \o t.zone

\* One csv record of writeRecordsToCSV: accountId, name, then keyId and
\* createdDate of every access key.
RECURSIVE keyFields(_)
keyFields(accessKeys) ==
    IF accessKeys = <<>> THEN <<>>
    ELSE <<Head(accessKeys).keyId, Head(accessKeys).createdDate>> \o keyFields(Tail(accessKeys))

csvRecord(user) == <<user.accountId, user.name>> \o keyFields(user.accessKeys)

writeRecordsToCSV(users) == [i \in 1..Len(users) |-> csvRecord(users[i])]

(***************************************************************************)
(* The remote collaborators: STS and the IAM of every account.  A listing  *)
(* is a sequence of pages; every page but the last carries a marker.       *)
(***************************************************************************)
AccountA == "111111111111"
AccountB == "222222222222"
RoleName == "ReadOnly"
NoClient == "none"
NoMarker == 0

\* sts.AssumeRole: the account the credentials of a role belong to, NoClient
\* for a role that cannot be assumed.
stsRoleAccount(roleARN) ==
    IF roleARN = "arn:aws:iam::" \o AccountA \o ":role/" \o RoleName THEN AccountA
    ELSE IF roleARN = "arn:aws:iam::" \o AccountB \o ":role/" \o RoleName THEN AccountB
    ELSE NoClient

UserName(i) == "user" \o ToString(i)

\* The numbers 1, 2, 3, ... dealt in order onto pages of sizes[1], sizes[2], ... items.
RECURSIVE numberPages(_, _)
numberPages(sizes, first) ==
    IF sizes = <<>> THEN <<>>
    ELSE <<[j \in 1..Head(sizes) |-> first + j - 1]>>
         \o numberPages(Tail(sizes), first + Head(sizes))

\* types.AccessKeyMetadata number n of a user.
keyMetadata(account, userName, n) ==
    [AccessKeyId |-> "AKIA" \o account \o userName \o "k" \o ToString(n),
     CreateDate  |-> [date |-> "2024-01-0" \o ToString(n), clock |-> "00:00:00", zone |-> "+00:00"]]

keyPages(account, userName, sizes) ==
    LET pages == numberPages(sizes, 1)
    IN  [p \in 1..Len(pages) |->
            [j \in 1..Len(pages[p]) |-> keyMetadata(account, userName, pages[p][j])]]

\* The inputs the model ranges over.
Records ==
    { <<AccountA, RoleName>>, <<AccountB, RoleName>>,
      <<"1111111111", "R1">>,                \* identifier too short
      <<AccountA, RoleName, "extra">>,       \* three fields
      <<AccountB>> }                         \* one field
Files == SeqsUpTo(Records, MaxAccounts)

UserPageSizes ==
    {s \in SeqsUpTo(0..MaxUsers, MaxUserPages) : s # <<>> /\ SumSeq(s) <= MaxUsers}
userPages(sizes) ==
    LET pages == numberPages(sizes, 1)
    IN  [p \in 1..Len(pages) |-> [j \in 1..Len(pages[p]) |-> UserName(pages[p][j])]]
UserListings == {userPages(s) : s \in UserPageSizes}

KeyPageSizes == SeqsUpTo(0..MaxKeysPerPage, MaxKeyPages) \ {<<>>}

DefaultFile == <<<<AccountA, RoleName>>>>
DefaultUsersA == <<<<UserName(1)>>>>
DefaultUsersB == <<<<>>, <<UserName(1)>>>>
DefaultKeysA1 == <<1>>
\* flag.IntVar takes any integer: the worker count is not validated.
WorkerCounts == (-1)..MaxWorkers

\* Two accounts, the first with a user that has keys and a user that has none.
TwoAccountFile == <<<<AccountA, RoleName>>, <<AccountB, RoleName>>>>
TwoUsersA == <<<<UserName(1), UserName(2)>>>>

Scenarios ==
    {[file |-> f, users |-> DefaultUsersA, keys |-> DefaultKeysA1] : f \in Files}
    \cup {[file |-> DefaultFile, users |-> u, keys |-> DefaultKeysA1] : u \in UserListings}
    \cup {[file |-> DefaultFile, users |-> DefaultUsersA, keys |-> k] : k \in KeyPageSizes}
    \cup {[file |-> TwoAccountFile, users |-> TwoUsersA, keys |-> DefaultKeysA1]}

\* The scenarios termination is checked on: every user listing of account A,
\* and a list of three accounts.
MixedFile == <<<<AccountA, RoleName>>, <<AccountB, RoleName>>, <<AccountA, RoleName>>>>

LiveScenarios ==
    {[file |-> DefaultFile, users |-> u, keys |-> DefaultKeysA1] : u \in UserListings}
    \cup {[file |-> MixedFile, users |-> DefaultUsersA, keys |-> DefaultKeysA1]}

VARIABLES
    file,            \* the records of the account list file
    iamUsersA,       \* the ListUsers pages of account A
    iamKeySizesA1,   \* the page sizes of the access keys of user1 of account A
    numOfWorker,     \* opts.numOfWorker
    pc,              \* where the main goroutine is
    csvAccountRoleList,
    acct,            \* index of the range loop over csvAccountRoleList
    assumeRoleIAMSvc,\* the account the current IAM client acts in
    listUsersMarker, \* listUsersInput.Marker
    inputUserList,
    numberOfUsers,
    spawned,         \* workers started by the go loop
    sent,            \* i of the loop that fills inputUserChan
    inputUserChan,   \* the buffered channel's content
    chanClosed,
    received,        \* i of the loop that reads resultChan
    userList,
    output,          \* the records handed to the csv writer
    wpc,             \* where each worker is
    wUser,           \* each worker's inputUser
    wMarker,         \* each worker's listAccessKeysInput.Marker
    wKeys,           \* each worker's outputAccessKeyList
    failure,         \* why the process was ended, "none" while it runs
    remoteCalls,     \* number of calls made of each remote operation
    remoteErrors,    \* number of remote calls that returned an error
    writerInvoked,   \* writeRecordsToCSV has been called
    taken,           \* per WorkItem: times received from inputUserChan
    pagesRequested,  \* per WorkItem: ListAccessKeys calls made
    outcomes         \* per WorkItem: the values sent on resultChan for it

env == <<file, iamUsersA, iamKeySizesA1, numOfWorker>>
mainVars == <<pc, csvAccountRoleList, acct, assumeRoleIAMSvc, listUsersMarker,
              inputUserList, numberOfUsers, spawned, sent, received, userList, output>>
chanVars == <<inputUserChan, chanClosed>>
workerVars == <<wpc, wUser, wMarker, wKeys>>
history == <<failure, remoteCalls, remoteErrors, writerInvoked, taken, pagesRequested, outcomes>>
vars == <<env, mainVars, chanVars, workerVars, history>>

\* iam.ListUsers / iam.ListAccessKeys of a client: the listing it pages through.
iamUsers(client) == IF client = AccountA THEN iamUsersA ELSE DefaultUsersB

iamKeySizes(client, userName) ==
    IF client = AccountA
    THEN IF userName = UserName(1) THEN iamKeySizesA1
         ELSE IF userName = UserName(2) THEN <<0>>
         ELSE <<1, 0>>
    ELSE <<1, 1>>

iamKeys(client, userName) == keyPages(client, userName, iamKeySizes(client, userName))

\* The response to a listing call with the given marker.
listPage(pages, marker) ==
    LET i == IF marker = NoMarker THEN 1 ELSE marker
    IN  [Items       |-> pages[i],
         IsTruncated |-> i < Len(pages),
         Marker      |-> IF i < Len(pages) THEN i + 1 ELSE NoMarker]

Workers == 1..(MaxWorkers + 1)
NoUser == [id |-> 0, name |-> "", accountId |-> "", iamClient |-> NoClient]

InitWith(scenarios) ==
    /\ \E sc \in scenarios :
          /\ file = sc.file
          /\ iamUsersA = sc.users
          /\ iamKeySizesA1 = sc.keys
    /\ numOfWorker \in WorkerCounts
    /\ pc = "read"
    /\ csvAccountRoleList = <<>>
    /\ acct = 0
    /\ assumeRoleIAMSvc = NoClient
    /\ listUsersMarker = NoMarker
    /\ inputUserList = <<>>
    /\ numberOfUsers = 0
    /\ spawned = 0
    /\ sent = 0
    /\ inputUserChan = <<>>
    /\ chanClosed = FALSE
    /\ received = 0
    /\ userList = <<>>
    /\ output = <<>>
    /\ wpc = [w \in Workers |-> "unborn"]
    /\ wUser = [w \in Workers |-> NoUser]
    /\ wMarker = [w \in Workers |-> NoMarker]
    /\ wKeys = [w \in Workers |-> <<>>]
    /\ failure = "none"
    /\ remoteCalls = [AssumeRole |-> 0, ListUsers |-> 0, ListAccessKeys |-> 0]
    /\ remoteErrors = 0
    /\ writerInvoked = FALSE
    /\ taken = <<>>
    /\ pagesRequested = <<>>
    /\ outcomes = <<>>

Init == InitWith(Scenarios)

(***************************************************************************)
(* The main goroutine.  A loop condition is evaluated in the step that     *)
(* leads to it.                                                            *)
(***************************************************************************)
Running == pc \notin {"fatal", "exit"}

\* An error that is logged while the run goes on from where it is.
FatalContinue(kind) ==
    /\ pc' = pc
    /\ failure' = kind

\* logger.Fatal / log.Fatalf: the process ends at once.
Fatal(kind) ==
    /\ pc' = "fatal"
    /\ failure' = kind

\* An account loop that leaves out the last account of the list.
accountLoopSkipsLast(i, list) == IF i < Len(list) THEN "assumeRole" ELSE "makeChans"

\* range csvAccountRoleList: the next account, or on to the channels.
accountLoop(i, list) == IF i <= Len(list) THEN "assumeRole" ELSE "makeChans"

\* A go loop that starts one worker whatever the configured count is.
workerLoopAtLeastOne(n, workers) == n = 0 \/ n + 1 <= workers

\* A go loop that starts at i := 0.
workerLoopOff(n, workers) == n <= workers

\* for i := 1; i <= numOfWorker; i++, with n workers started so far.

workerLoop(n, workers) == n + 1 <= workers

\* A reading loop that stops one outcome early, and one that waits for one more.
aggregateLoopShort(i, n) == IF i + 1 < n THEN "aggregate" ELSE "write"

aggregateLoopLong(i, n) == IF i <= n THEN "aggregate" ELSE "write"

\* for i := 0; i < numberOfUsers; i++ of the loop reading resultChan.

aggregateLoop(i, n) == IF i < n THEN "aggregate" ELSE "write"

\* A filling loop after which close(inputUserChan) is forgotten.
enqueueLoopNoClose(i, n) == IF i < n THEN "enqueue" ELSE aggregateLoop(0, n)

\* for i := 0; i < numberOfUsers; i++ of the loop filling inputUserChan.
enqueueLoop(i, n) == IF i < n THEN "enqueue" ELSE "close"

\* csvAccountRoleList, err := getAccountRoleListFromCSV(opts.accountListFile)
ReadAccountList ==
    /\ pc = "read"
    /\ LET r == getAccountRoleListFromCSV(file)
       IN  IF r.err # "ok"
           THEN /\ Fatal("validation")
                /\ UNCHANGED <<csvAccountRoleList, acct>>
           ELSE /\ csvAccountRoleList' = r.list
                /\ acct' = 1
                /\ pc' = accountLoop(1, r.list)
                /\ UNCHANGED failure
    /\ UNCHANGED <<env, assumeRoleIAMSvc, listUsersMarker, inputUserList, numberOfUsers,
                   spawned, sent, received, userList, output, chanVars, workerVars,
                   remoteCalls, remoteErrors, writerInvoked, taken, pagesRequested, outcomes>>

\* stsSvc.AssumeRole and the IAM client built from its credentials.
AssumeRole ==
    /\ pc = "assumeRole"
    /\ remoteCalls' = [remoteCalls EXCEPT !.AssumeRole = @ + 1]
    /\ LET account == stsRoleAccount(getRoleARN(csvAccountRoleList[acct]))
       IN  \/ /\ account # NoClient
              /\ assumeRoleIAMSvc' = account
              /\ listUsersMarker' = NoMarker
              /\ pc' = "listUsers"
              /\ UNCHANGED <<failure, remoteErrors>>
           \/ /\ Fatal("remote")
              /\ remoteErrors' = remoteErrors + 1
              /\ UNCHANGED <<assumeRoleIAMSvc, listUsersMarker>>
    /\ UNCHANGED <<env, csvAccountRoleList, acct, inputUserList, numberOfUsers, spawned,
                   sent, received, userList, output, chanVars, workerVars,
                   writerInvoked, taken, pagesRequested, outcomes>>

\* Users labelled with the account of the first record of the list.
usersOfPageFirstAccount(accountId, client, users) ==
    [j \in 1..Len(users) |->
        [name |-> users[j], accountId |-> getAccountId(csvAccountRoleList[1]),
         iamClient |-> client]]

\* The inputUser values appended for one page of users.
usersOfPage(accountId, client, users) ==
    [j \in 1..Len(users) |-> [name |-> users[j], accountId |-> accountId, iamClient |-> client]]

\* A ListUsers loop that breaks after its first page.
usersMoreNever(out) == FALSE

\* if listUsersOutput.IsTruncated { Marker = listUsersOutput.Marker } else { break }

usersMore(out) == out.IsTruncated

\* One iteration of the ListUsers loop of the current account.
ListUsers ==
    /\ pc = "listUsers"
    /\ remoteCalls' = [remoteCalls EXCEPT !.ListUsers = @ + 1]
    /\ \/ LET out == listPage(iamUsers(assumeRoleIAMSvc), listUsersMarker)
          IN  /\ inputUserList' = inputUserList \o
                    usersOfPage(getAccountId(csvAccountRoleList[acct]), assumeRoleIAMSvc, out.Items)
              /\ IF usersMore(out)
                 THEN /\ listUsersMarker' = out.Marker
                      /\ UNCHANGED <<acct, pc>>
                 ELSE /\ acct' = acct + 1
                      /\ pc' = accountLoop(acct + 1, csvAccountRoleList)
                      /\ UNCHANGED listUsersMarker
              /\ UNCHANGED <<failure, remoteErrors>>
       \/ /\ Fatal("remote")
          /\ remoteErrors' = remoteErrors + 1
          /\ UNCHANGED <<inputUserList, listUsersMarker, acct>>
    /\ UNCHANGED <<env, csvAccountRoleList, assumeRoleIAMSvc, numberOfUsers, spawned,
                   sent, received, userList, output, chanVars, workerVars,
                   writerInvoked, taken, pagesRequested, outcomes>>

\* numberOfUsers := len(inputUserList) and the two make(chan ...).
MakeChans ==
    /\ pc = "makeChans"
    /\ numberOfUsers' = Len(inputUserList)
    /\ taken' = [i \in 1..Len(inputUserList) |-> 0]
    /\ pagesRequested' = [i \in 1..Len(inputUserList) |-> 0]
    /\ outcomes' = [i \in 1..Len(inputUserList) |-> <<>>]
    /\ pc' = IF workerLoop(0, numOfWorker) THEN "spawn"
             ELSE enqueueLoop(0, Len(inputUserList))
    /\ UNCHANGED <<env, csvAccountRoleList, acct, assumeRoleIAMSvc, listUsersMarker,
                   inputUserList, spawned, sent, received, userList, output, chanVars,
                   workerVars, failure, remoteCalls, remoteErrors, writerInvoked>>

\* go app.worker(i, inputUserChan, resultChan)
StartWorker ==
    /\ pc = "spawn"
    /\ spawned' = spawned + 1
    /\ wpc' = [wpc EXCEPT ![spawned + 1] = "range"]
    /\ pc' = IF workerLoop(spawned + 1, numOfWorker) THEN "spawn"
             ELSE enqueueLoop(0, numberOfUsers)
    /\ UNCHANGED <<env, csvAccountRoleList, acct, assumeRoleIAMSvc, listUsersMarker,
                   inputUserList, numberOfUsers, sent, received, userList, output,
                   chanVars, wUser, wMarker, wKeys, history>>

\* A work queue with a buffer of one.
inputUserChanCapOne(n) == 1

\* inputUserChan := make(chan inputUser, numberOfUsers): the buffer's capacity.
inputUserChanCap(n) == n

\* inputUserChan <- inputUserList[i]; blocks while the buffer is full.
Enqueue ==
    /\ pc = "enqueue"
    /\ Len(inputUserChan) < inputUserChanCap(numberOfUsers)
    /\ LET u == inputUserList[sent + 1]
       IN  inputUserChan' = Append(inputUserChan,
               [id |-> sent + 1, name |-> u.name, accountId |-> u.accountId,
                iamClient |-> u.iamClient])
    /\ sent' = sent + 1
    /\ pc' = enqueueLoop(sent + 1, numberOfUsers)
    /\ UNCHANGED <<env, csvAccountRoleList, acct, assumeRoleIAMSvc, listUsersMarker,
                   inputUserList, numberOfUsers, spawned, received, userList, output,
                   chanClosed, workerVars, history>>

\* close(inputUserChan)
CloseChan ==
    /\ pc = "close"
    /\ chanClosed' = TRUE
    /\ pc' = aggregateLoop(0, numberOfUsers)
    /\ UNCHANGED <<env, csvAccountRoleList, acct, assumeRoleIAMSvc, listUsersMarker,
                   inputUserList, numberOfUsers, spawned, sent, received, userList,
                   output, inputUserChan, workerVars, history>>

\* err = writeRecordsToCSV(opts.outputFile, userList), and the end of main.
WriteReport ==
    /\ pc = "write"
    /\ writerInvoked' = TRUE
    /\ \/ /\ output' = writeRecordsToCSV(userList)
          /\ pc' = "exit"
          /\ UNCHANGED failure
       \/ /\ Fatal("io")
          /\ UNCHANGED output
    /\ UNCHANGED <<env, csvAccountRoleList, acct, assumeRoleIAMSvc, listUsersMarker,
                   inputUserList, numberOfUsers, spawned, sent, received, userList,
                   chanVars, workerVars, remoteCalls, remoteErrors, taken, pagesRequested,
                   outcomes>>

(***************************************************************************)
(* application.worker: for inputUser := range inputUserChan { ... }        *)
(***************************************************************************)
\* A list declared outside the range loop, kept from user to user.
keptKeyList(previous) == previous

\* outputAccessKeyList := []types.AccessKeyMetadata{} at the top of the loop
\* body, whatever the list of the previous user was.

freshKeyList(previous) == <<>>

\* A receive that leaves the value in the channel.
afterReceivePeek(chan) == chan

\* A receive from a channel takes the value out of it.
afterReceive(chan) == Tail(chan)

\* for inputUser := range inputUserChan, with a fresh outputAccessKeyList and
\* a fresh listAccessKeysInput.
WorkerReceive(w) ==
    /\ Running
    /\ wpc[w] = "range"
    /\ inputUserChan # <<>>
    /\ wUser' = [wUser EXCEPT ![w] = Head(inputUserChan)]
    /\ inputUserChan' = afterReceive(inputUserChan)
    /\ wKeys' = [wKeys EXCEPT ![w] = freshKeyList(wKeys[w])]
    /\ wMarker' = [wMarker EXCEPT ![w] = NoMarker]
    /\ wpc' = [wpc EXCEPT ![w] = "call"]
    /\ taken' = [taken EXCEPT ![Head(inputUserChan).id] = @ + 1]
    /\ UNCHANGED <<env, mainVars, chanClosed, failure, remoteCalls, remoteErrors,
                   writerInvoked, pagesRequested, outcomes>>

\* The range loop ends when the channel is closed and drained.
WorkerReturn(w) ==
    /\ Running
    /\ wpc[w] = "range"
    /\ inputUserChan = <<>>
    /\ chanClosed
    /\ wpc' = [wpc EXCEPT ![w] = "returned"]
    /\ UNCHANGED <<env, mainVars, chanVars, wUser, wMarker, wKeys, history>>

\* inputUser.iamClient.ListAccessKeys(...) is issued.
ListAccessKeysCall(w) ==
    /\ Running
    /\ wpc[w] = "call"
    /\ wpc' = [wpc EXCEPT ![w] = "wait"]
    /\ remoteCalls' = [remoteCalls EXCEPT !.ListAccessKeys = @ + 1]
    /\ pagesRequested' = [pagesRequested EXCEPT ![wUser[w].id] = @ + 1]
    /\ UNCHANGED <<env, mainVars, chanVars, wUser, wMarker, wKeys, failure, remoteErrors,
                   writerInvoked, taken, outcomes>>

\* A page that follows every marker, also the marker of a page without items.
afterKeysPageFollow(keys, marker, out) ==
    [keys   |-> keys \o out.Items,
     more   |-> out.IsTruncated,
     marker |-> IF out.IsTruncated THEN out.Marker ELSE marker]

\* The body of the inner loop after a page has come back: the new
\* outputAccessKeyList, whether another page is asked for, and the marker.
afterKeysPage(keys, marker, out) ==
    IF Len(out.Items) # 0
    THEN [keys   |-> keys \o out.Items,
          more   |-> out.IsTruncated,
          marker |-> IF out.IsTruncated THEN out.Marker ELSE marker]
    ELSE [keys |-> keys, more |-> FALSE, marker |-> marker]

\* A worker without the else branch that sends nil.
workerAfterLoopFoundOnly(keys) == IF Len(keys) # 0 THEN "send" ELSE "range"

\* After the inner loop both branches of if len(outputAccessKeyList) != 0
\* send one value on resultChan.

workerAfterLoop(keys) == "send"

\* An error handled as "no keys found" instead of log.Fatalf.
listAccessKeysErrorSkipped(w) == [pc |-> pc, failure |-> failure, wpc |-> "send"]

\* if err != nil { log.Fatalf(...) }: what becomes of the process (pc, failure)
\* and of the worker (wpc).
listAccessKeysError(w) == [pc |-> "fatal", failure |-> "remote", wpc |-> wpc[w]]

\* The call returns: an error ends the process, a page is handled.
ListAccessKeysReturn(w) ==
    /\ Running
    /\ wpc[w] = "wait"
    /\ \/ LET out == listPage(iamKeys(wUser[w].iamClient, wUser[w].name), wMarker[w])
              nxt == afterKeysPage(wKeys[w], wMarker[w], out)
          IN  /\ wKeys' = [wKeys EXCEPT ![w] = nxt.keys]
              /\ wMarker' = [wMarker EXCEPT ![w] = nxt.marker]
              /\ wpc' = [wpc EXCEPT ![w] = IF nxt.more THEN "call"
                                            ELSE workerAfterLoop(nxt.keys)]
              /\ UNCHANGED <<pc, failure, remoteErrors>>
       \/ LET e == listAccessKeysError(w)
          IN  /\ remoteErrors' = remoteErrors + 1
              /\ pc' = e.pc
              /\ failure' = e.failure
              /\ wpc' = [wpc EXCEPT ![w] = e.wpc]
              /\ UNCHANGED <<wKeys, wMarker>>
    /\ UNCHANGED <<env, csvAccountRoleList, acct, assumeRoleIAMSvc, listUsersMarker,
                   inputUserList, numberOfUsers, spawned, sent, received, userList,
                   output, chanVars, wUser, remoteCalls, writerInvoked, taken,
                   pagesRequested, outcomes>>

\* The value the worker sends: &outputUser{...} when keys were found, else nil.
toAccessKeys(list) ==
    [j \in 1..Len(list) |->
        [keyId |-> list[j].AccessKeyId, createdDate |-> Format(list[j].CreateDate)]]

Nil == [isNil |-> TRUE, name |-> "", accountId |-> "", accessKeys |-> <<>>]

workerResult(user, keys) ==
    IF Len(keys) # 0
    THEN [isNil |-> FALSE, name |-> user.name, accountId |-> user.accountId,
          accessKeys |-> toAccessKeys(keys)]
    ELSE Nil

\* An aggregator that puts the newest user first.
appendUserFront(list, user) ==
    IF ~user.isNil
    THEN <<[name |-> user.name, accountId |-> user.accountId,
            accessKeys |-> user.accessKeys]>> \o list
    ELSE list

\* if user != nil { userList = append(userList, *user) }
appendUser(list, user) ==
    IF ~user.isNil
    THEN Append(list, [name |-> user.name, accountId |-> user.accountId,
                       accessKeys |-> user.accessKeys])
    ELSE list

\* resultChan is unbuffered: the worker's send and main's receive
\* (user := <-resultChan) are one step.
Deliver(w) ==
    /\ pc = "aggregate"
    /\ wpc[w] = "send"
    /\ LET user == workerResult(wUser[w], wKeys[w])
       IN  /\ userList' = appendUser(userList, user)
           /\ outcomes' = [outcomes EXCEPT ![wUser[w].id] = Append(@, user)]
    /\ received' = received + 1
    /\ pc' = aggregateLoop(received + 1, numberOfUsers)
    /\ wpc' = [wpc EXCEPT ![w] = "range"]
    /\ UNCHANGED <<env, csvAccountRoleList, acct, assumeRoleIAMSvc, listUsersMarker,
                   inputUserList, numberOfUsers, spawned, sent, output, chanVars,
                   wUser, wMarker, wKeys, failure, remoteCalls, remoteErrors,
                   writerInvoked, taken, pagesRequested>>

MainStep ==
    \/ ReadAccountList
    \/ AssumeRole
    \/ ListUsers
    \/ MakeChans
    \/ StartWorker
    \/ Enqueue
    \/ CloseChan
    \/ WriteReport

WorkerStep(w) ==
    \/ WorkerReceive(w)
    \/ WorkerReturn(w)
    \/ ListAccessKeysCall(w)
    \/ ListAccessKeysReturn(w)
    \/ Deliver(w)

Next == MainStep \/ \E w \in Workers : WorkerStep(w)

Spec == Init /\ [][Next]_vars

\* The Go scheduler does not leave the process idle while a goroutine can
\* take a step.
FairSpec == InitWith(LiveScenarios) /\ [][Next]_vars /\ WF_vars(Next)

(***************************************************************************)
(* Quantities the properties speak of.                                     *)
(***************************************************************************)
WorkItems == 1..Len(outcomes)

RECURSIVE SumLen(_)
SumLen(ss) == IF ss = <<>> THEN 0 ELSE Len(Head(ss)) + SumLen(Tail(ss))

\* Outcomes the aggregator has received from resultChan.
OutcomesReceived == SumLen(outcomes)

\* The workers that hold WorkItem i: received from the queue, outcome not yet sent.
Holders(i) == {w \in Workers : wpc[w] \in {"call", "wait", "send"} /\ wUser[w].id = i}

\* The workers a configured count of numOfWorker stands for: none when it is
\* zero or negative.
WorkerCount == IF numOfWorker > 0 THEN numOfWorker ELSE 0

\* ListAccessKeys calls issued and not yet returned.
InFlight == {w \in Workers : wpc[w] = "wait"}

(***************************************************************************)
(* C1: when the report is handed to the writer, the number of outcomes the *)
(* aggregator has received from the result channel equals the number of    *)
(* WorkItems put on the work queue, and that is every WorkItem.            *)
(***************************************************************************)
C1_OutcomesEqualWorkItems ==
    (pc = "write" \/ writerInvoked) =>
        /\ OutcomesReceived = sent
        /\ received = sent
        /\ sent = Len(inputUserList)

C1_Witness ==
    /\ pc = "write"
    /\ numOfWorker = 2
    /\ sent = 3
    /\ OutcomesReceived = 3

(***************************************************************************)
(* C2: every WorkItem a worker has taken from the queue has caused exactly *)
(* one send on the result channel once the worker has let go of it, and    *)
(* none while the worker still holds it; a worker back at the queue has    *)
(* sent for its previous WorkItem.                                         *)
(***************************************************************************)
C2_OneOutcomePerWorkItem ==
    \A i \in WorkItems :
        /\ Len(outcomes[i]) + Cardinality(Holders(i)) = taken[i]
        /\ \A w \in Workers : wpc[w] \in {"range", "returned"} /\ wUser[w].id = i
                                => Len(outcomes[i]) >= 1

C2_Witness ==
    \E i, j \in WorkItems :
        /\ outcomes[i] = <<Nil>>
        /\ Len(outcomes[j]) = 1
        /\ ~outcomes[j][1].isNil
        /\ taken[i] = 1
        /\ taken[j] = 1
        /\ \E w \in Workers : wpc[w] = "range" /\ wUser[w].id = j

(***************************************************************************)
(* C4: the number of ListAccessKeys calls in flight at the same time never *)
(* exceeds the configured worker count.                                    *)
(***************************************************************************)
C4_InFlightAtMostWorkers == Cardinality(InFlight) <= WorkerCount

C4_Witness ==
    /\ Cardinality(InFlight) = numOfWorker
    /\ numOfWorker = 2
    /\ numberOfUsers = 3
    /\ inputUserChan # <<>>

(***************************************************************************)
(* C3: with at least one worker, under fair scheduling, a run in which no  *)
(* remote call fails reaches the report-writing step; the aggregator waits *)
(* for an outcome only while it has received fewer than numberOfUsers, and *)
(* has received exactly numberOfUsers when it goes on to write.            *)
(***************************************************************************)
C3_AggregatorTerminates ==
    /\ [](pc = "aggregate" => received < numberOfUsers)
    /\ [](pc = "write" => received = numberOfUsers)
    /\ (numOfWorker >= 1 => <>(pc = "write" \/ failure \in {"validation", "remote"}))

C3_Witness ==
    /\ pc = "write"
    /\ remoteErrors = 0
    /\ numOfWorker = 1
    /\ numberOfUsers = 3
    /\ received = 3
    /\ \A w \in Workers : wpc[w] \in {"unborn", "range", "returned"}

(***************************************************************************)
(* C5: a user whose first ListAccessKeys page has no items gets the nil    *)
(* outcome after that one call, also when the page carries a marker, and   *)
(* has no row in the report; every row of the report has at least one      *)
(* (keyId, createdDate) pair.                                              *)
(***************************************************************************)
FirstPageEmpty(client, userName) == iamKeys(client, userName)[1] = <<>>

C5_EmptyFirstPageIsEmpty ==
    /\ \A i \in WorkItems :
          FirstPageEmpty(inputUserList[i].iamClient, inputUserList[i].name) =>
              /\ pagesRequested[i] <= 1
              /\ \A k \in 1..Len(outcomes[i]) : outcomes[i][k] = Nil
    /\ \A k \in 1..Len(userList) :
          /\ ~FirstPageEmpty(userList[k].accountId, userList[k].name)
          /\ Len(userList[k].accessKeys) >= 1
    /\ \A k \in 1..Len(output) : Len(output[k]) >= 4

C5_Witness ==
    /\ pc = "exit"
    /\ Len(iamKeySizesA1) >= 2
    /\ iamKeySizesA1[1] = 0
    /\ iamKeySizesA1[2] > 0
    /\ \E i \in WorkItems :
          /\ inputUserList[i].name = UserName(1)
          /\ pagesRequested[i] = 1
          /\ outcomes[i] = <<Nil>>
    /\ output = <<>>

(***************************************************************************)
(* C6: the outcome of a user whose first ListAccessKeys page has items     *)
(* carries the keys of all pages of the listing up to and including the    *)
(* first page without a marker, in page order, also when a later page has  *)
(* no items but carries a marker.                                          *)
(***************************************************************************)
\* Every page of a listing but the last carries a marker.
AllKeys(client, userName) == toAccessKeys(Flatten(iamKeys(client, userName)))

C6_RowIsConcatenationOfAllPages ==
    \A i \in WorkItems :
        ~FirstPageEmpty(inputUserList[i].iamClient, inputUserList[i].name) =>
            \A k \in 1..Len(outcomes[i]) :
                /\ ~outcomes[i][k].isNil
                /\ outcomes[i][k].accessKeys =
                       AllKeys(inputUserList[i].iamClient, inputUserList[i].name)

(***************************************************************************)
(* C7: once a remote call has failed, the process has ended in the failed  *)
(* state and the report writer has not been and is never invoked; the      *)
(* writer is invoked only in runs without a failed remote call.            *)
(***************************************************************************)
C7_NoReportAfterRemoteFailure ==
    /\ remoteErrors > 0 =>
          /\ pc = "fatal"
          /\ failure = "remote"
          /\ ~writerInvoked
          /\ output = <<>>
    /\ writerInvoked => remoteErrors = 0

C7_Witness ==
    /\ remoteErrors = 1
    /\ pc = "fatal"
    /\ received >= 1
    /\ userList # <<>>
    /\ \E w \in Workers : wpc[w] = "wait"

(***************************************************************************)
(* C8: the set of rows of a successful run is a function of the input list *)
(* and the backend alone: whatever the worker count and the interleaving,  *)
(* it is the set of rows a sequential pass over the accounts, their users  *)
(* and their key listings yields.  Only the order of the rows varies.      *)
(***************************************************************************)
\* The users of an account, page after page.
AccountWorkItems(accountRole) ==
    LET names == Flatten(iamUsers(stsRoleAccount(getRoleARN(accountRole))))
    IN  [j \in 1..Len(names) |->
            [name |-> names[j], accountId |-> accountRole[1],
             iamClient |-> stsRoleAccount(getRoleARN(accountRole))]]

ExpectedWorkItems == Flatten([a \in 1..Len(file) |-> AccountWorkItems(file[a])])

\* The keys one sequential traversal of a listing collects from page i on.
RECURSIVE CollectedKeys(_, _)
CollectedKeys(pages, i) ==
    IF pages[i] = <<>> THEN <<>>
    ELSE IF i < Len(pages) THEN pages[i] \o CollectedKeys(pages, i + 1)
    ELSE pages[i]

SequentialRows ==
    { csvRecord([name |-> item.name, accountId |-> item.accountId,
                 accessKeys |-> toAccessKeys(CollectedKeys(iamKeys(item.iamClient, item.name), 1))]) :
        item \in {it \in Range(ExpectedWorkItems) :
                     CollectedKeys(iamKeys(it.iamClient, it.name), 1) # <<>>} }

C8_RowSetIndependentOfSchedule ==
    pc = "exit" => Range(output) = SequentialRows

\* Two rows written in the reverse of the order their users were submitted in.
C8_Witness ==
    /\ pc = "exit"
    /\ numOfWorker = 2
    /\ Len(output) = 2
    /\ output[1][1] = AccountB
    /\ output[2][1] = AccountA
    /\ inputUserList[1].accountId = AccountA

(***************************************************************************)
(* C9: once the users of every account have been listed, inputUserList     *)
(* holds exactly one WorkItem for every user of every page, in the order   *)
(* of the accounts in the input list and of the pages within an account;   *)
(* P pages of k users each give P*k WorkItems for the account.             *)
(***************************************************************************)
EnumerationDone == pc # "read" /\ acct > Len(csvAccountRoleList)

UniformPages(pages) == \A p \in 1..Len(pages) : Len(pages[p]) = Len(pages[1])

C9_EveryUserOneWorkItem ==
    EnumerationDone =>
        /\ inputUserList = ExpectedWorkItems
        /\ (file = DefaultFile /\ UniformPages(iamUsersA)) =>
               Len(inputUserList) = Len(iamUsersA) * Len(iamUsersA[1])

C9_Witness ==
    /\ pc = "makeChans"
    /\ file = DefaultFile
    /\ Len(iamUsersA) = 2
    /\ Len(iamUsersA[1]) = 1
    /\ Len(iamUsersA[2]) = 1
    /\ Len(inputUserList) = 2
    /\ inputUserList[1].name # inputUserList[2].name

(***************************************************************************)
(* C10: when an entry of the input list has a field count other than 2 or  *)
(* an account identifier whose length is not 12, the run fails without any *)
(* AssumeRole, ListUsers or ListAccessKeys call, also when valid entries   *)
(* come before the malformed one.                                          *)
(***************************************************************************)
Malformed(record) == Len(record) # 2 \/ Len(record[1]) # 12

C10_MalformedInputNoRemoteCall ==
    (\E i \in 1..Len(file) : Malformed(file[i])) =>
        /\ remoteCalls.AssumeRole = 0
        /\ remoteCalls.ListUsers = 0
        /\ remoteCalls.ListAccessKeys = 0
        /\ pc \in {"read", "fatal"}
        /\ pc = "fatal" => failure = "validation"

C10_Witness ==
    /\ pc = "fatal"
    /\ failure = "validation"
    /\ Len(file) = 2
    /\ ~Malformed(file[1])
    /\ Len(file[2]) = 2
    /\ Len(file[2][1]) # 12
    /\ remoteCalls.AssumeRole = 0

(***************************************************************************)
(* C11: the work queue is fully populated and closed before any worker     *)
(* begins draining it: no worker holds a WorkItem or has a ListAccessKeys  *)
(* call under way while WorkItems remain to be enqueued or the queue is    *)
(* still open.                                                             *)
(***************************************************************************)
C11_QueueClosedBeforeDraining ==
    (\E w \in Workers : wpc[w] \in {"call", "wait", "send"}) =>
        /\ sent = numberOfUsers
        /\ chanClosed

\* As amended: the queue is full and closed before the aggregator receives
\* its first outcome and before any worker leaves its range loop; the
\* workers are started before the queue is filled.
C11_QueueClosedBeforeFirstOutcome ==
    /\ (OutcomesReceived > 0 \/ \E w \in Workers : wpc[w] = "returned") =>
          /\ sent = numberOfUsers
          /\ chanClosed
    /\ pc = "enqueue" => spawned = WorkerCount

\* A worker waits for ListAccessKeys while main still has WorkItems to enqueue.
C11_Witness ==
    /\ pc = "enqueue"
    /\ sent < numberOfUsers
    /\ ~chanClosed
    /\ \E w \in Workers : wpc[w] = "wait"

(***************************************************************************)
(* C12: both traversals go on after a page without items that carries a    *)
(* marker and stop at the first page without a marker: ListUsers has asked *)
(* for every page of an account once the account is done, ListAccessKeys   *)
(* for every page of a user once the user's outcome is sent.               *)
(***************************************************************************)
\* ListUsers pages of the accounts main is done with.
RECURSIVE UserPagesListed(_)
UserPagesListed(n) ==
    IF n = 0 THEN 0
    ELSE Len(iamUsers(stsRoleAccount(getRoleARN(csvAccountRoleList[n])))) + UserPagesListed(n - 1)

C12_TraversalsFollowEveryMarker ==
    /\ EnumerationDone => remoteCalls.ListUsers = UserPagesListed(Len(csvAccountRoleList))
    /\ \A i \in WorkItems :
          outcomes[i] # <<>> =>
              pagesRequested[i] = Len(iamKeys(inputUserList[i].iamClient, inputUserList[i].name))

(***************************************************************************)
(* C13: no WorkItem is processed more than once.  A WorkItem put on the    *)
(* queue is either still in the queue and taken by nobody, or out of the   *)
(* queue and taken exactly once; at most one worker holds it; its          *)
(* ListAccessKeys traversal never asks for more pages than one traversal   *)
(* of its listing has; and when the report is written every WorkItem has   *)
(* been taken exactly once.                                                *)
(***************************************************************************)
\* The WorkItems waiting in the work queue.
Queued == {inputUserChan[k].id : k \in 1..Len(inputUserChan)}

C13_WorkItemTakenOnce ==
    /\ Cardinality(Queued) = Len(inputUserChan)
    /\ \A i \in WorkItems :
          /\ taken[i] = (IF i <= sent /\ i \notin Queued THEN 1 ELSE 0)
          /\ Cardinality(Holders(i)) <= 1
          /\ pagesRequested[i] > 0 => taken[i] = 1
          /\ pagesRequested[i] <= Len(iamKeys(inputUserList[i].iamClient, inputUserList[i].name))
          /\ outcomes[i] # <<>> => pagesRequested[i] >= 1
    /\ pc = "write" => \A i \in WorkItems : taken[i] = 1

\* Two workers hold different WorkItems while a third one waits in the queue.
C13_Witness ==
    /\ numberOfUsers = 3
    /\ Len(inputUserChan) = 1
    /\ \E v, w \in Workers :
          /\ v # w
          /\ wpc[v] \in {"call", "wait", "send"}
          /\ wpc[w] \in {"call", "wait", "send"}
          /\ wUser[v].id # wUser[w].id
          /\ pagesRequested[wUser[v].id] >= 1
          /\ pagesRequested[wUser[w].id] >= 1

(***************************************************************************)
(* C14: the two phases are sequential.  Once a worker has been started or  *)
(* a ListAccessKeys call has been issued, AssumeRole has been called for   *)
(* every account of the input list and ListUsers for every page of every   *)
(* account, and main has left the account loop; as these counts stay at    *)
(* their totals, no AssumeRole or ListUsers call follows the first         *)
(* ListAccessKeys call.                                                    *)
(***************************************************************************)
WorkerPhaseBegun ==
    \/ spawned > 0
    \/ \E w \in Workers : wpc[w] # "unborn"
    \/ remoteCalls.ListAccessKeys > 0

C14_EnumerationBeforeWorkers ==
    WorkerPhaseBegun =>
        /\ EnumerationDone
        /\ pc \notin {"read", "assumeRole", "listUsers"}
        /\ remoteCalls.AssumeRole = Len(csvAccountRoleList)
        /\ remoteCalls.ListUsers = UserPagesListed(Len(csvAccountRoleList))

\* ListAccessKeys is called after two accounts and three ListUsers pages.
C14_Witness ==
    /\ remoteCalls.ListAccessKeys > 0
    /\ remoteCalls.AssumeRole >= 2
    /\ remoteCalls.ListUsers >= 3
    /\ Len(inputUserList) >= 2

(***************************************************************************)
(* C15: a failure of AssumeRole or of a ListUsers page aborts the run at   *)
(* once.  In a run that has failed before any ListAccessKeys call the      *)
(* process has ended and takes no further step, exactly one call has       *)
(* failed, AssumeRole has been called for the accounts up to the failing   *)
(* one only and ListUsers for no more than their pages, no WorkItem has    *)
(* been enqueued, no worker started and no report written.                 *)
(***************************************************************************)
EnumerationFailed == failure = "remote" /\ remoteCalls.ListAccessKeys = 0

C15_EnumerationFailureAborts ==
    EnumerationFailed =>
        /\ pc = "fatal"
        /\ ~ENABLED Next
        /\ remoteErrors = 1
        /\ acct <= Len(csvAccountRoleList)
        /\ remoteCalls.AssumeRole = acct
        /\ remoteCalls.ListUsers <= UserPagesListed(acct)
        /\ remoteCalls.ListUsers >= UserPagesListed(acct - 1)
        /\ sent = 0
        /\ inputUserChan = <<>>
        /\ numberOfUsers = 0
        /\ spawned = 0
        /\ \A w \in Workers : wpc[w] = "unborn"
        /\ ~writerInvoked

\* The second ListUsers page of the second of three accounts fails, with
\* WorkItems of the first account already collected.
C15_Witness ==
    /\ EnumerationFailed
    /\ acct = 2
    /\ Len(csvAccountRoleList) = 3
    /\ Len(inputUserList) >= 1
    /\ remoteCalls.ListUsers = UserPagesListed(1) + 2

(***************************************************************************)
(* C16: the report rows are the Found outcomes in the order the aggregator *)
(* received them.  Every receive from the result channel appends the       *)
(* received outcome at the end of userList when it is Found and leaves     *)
(* userList alone when it is nil; no other step changes userList; the      *)
(* report is written from userList, one row per user in the same order.    *)
(***************************************************************************)
\* The outcome received in a step, as a one-element set (empty when none is).
Arrived ==
    {outcomes'[i][Len(outcomes'[i])] :
        i \in {k \in WorkItems : outcomes'[k] # outcomes[k]}}

ArrivalStep ==
    /\ received' \in {received, received + 1}
    /\ Cardinality(Arrived) = received' - received
    /\ \A i \in WorkItems : Len(outcomes'[i]) - Len(outcomes[i]) \in {0, 1}
    /\ received' = received => userList' = userList
    /\ \A o \in Arrived :
          userList' = IF o.isNil THEN userList
                      ELSE Append(userList, [name |-> o.name, accountId |-> o.accountId,
                                             accessKeys |-> o.accessKeys])
    /\ output' # output =>
          /\ output' = writeRecordsToCSV(userList)
          /\ userList' = userList

C16_RowsInArrivalOrder ==
    /\ [](pc = "exit" =>
            /\ Len(output) = Len(userList)
            /\ \A r \in 1..Len(output) : output[r] = csvRecord(userList[r]))
    /\ [][Len(outcomes') = Len(outcomes) => ArrivalStep]_vars

\* Three outcomes, one of them nil; the two rows are in the reverse of the
\* order their WorkItems were submitted in.
C16_Witness ==
    /\ pc = "exit"
    /\ received = 3
    /\ \E i \in WorkItems : outcomes[i] = <<Nil>>
    /\ Len(output) = 2
    /\ userList[1].accountId = AccountB
    /\ userList[2].accountId = AccountA
    /\ inputUserList[1].accountId = AccountA
    /\ inputUserList[3].accountId = AccountB

(***************************************************************************)
(* C17: with at least one worker the fan-out/fan-in cannot deadlock: while *)
(* the process runs some goroutine can take a step.  The work queue has    *)
(* room for all N WorkItems, so main's enqueue is never blocked on a full  *)
(* queue and the close follows it, also while every worker is blocked      *)
(* sending on the result channel.                                          *)
(***************************************************************************)
C17_NoDeadlock ==
    /\ (numOfWorker >= 1 /\ Running) => ENABLED Next
    /\ pc = "enqueue" =>
          /\ Len(inputUserChan) < inputUserChanCap(numberOfUsers)
          /\ ENABLED Enqueue
    /\ pc = "close" => ENABLED CloseChan

\* Every worker is blocked sending its outcome while main still enqueues.
C17_Witness ==
    /\ pc = "enqueue"
    /\ numOfWorker = 2
    /\ sent < numberOfUsers
    /\ inputUserChan = <<>>
    /\ \A w \in 1..numOfWorker : wpc[w] = "send"

(***************************************************************************)
(* C18: the worker count is not validated.  The report-writing step is     *)
(* reached only with at least one worker or without WorkItems; a run in    *)
(* which no call fails reaches it in these cases.  With a worker count of  *)
(* zero or below and at least one WorkItem, every WorkItem is enqueued and *)
(* the queue is closed, and the run ends up with the aggregator blocked on *)
(* its first receive, where no goroutine can take a step any more.         *)
(***************************************************************************)
AggregatorStuck ==
    /\ numOfWorker <= 0
    /\ numberOfUsers >= 1
    /\ pc = "aggregate"

C18_WorkerCountNotValidated ==
    /\ []((pc \in {"write", "exit"} \/ writerInvoked) =>
             (numOfWorker >= 1 \/ numberOfUsers = 0))
    /\ [](AggregatorStuck =>
             /\ sent = numberOfUsers
             /\ Len(inputUserChan) = numberOfUsers
             /\ chanClosed
             /\ received = 0
             /\ spawned = 0
             /\ ~writerInvoked
             /\ ~ENABLED Next)
    /\ <>(failure # "none" \/ pc = "write" \/ AggregatorStuck)
    /\ [](numOfWorker <= 0 /\ Len(inputUserList) >= 1 /\ pc = "makeChans" => <>AggregatorStuck)

\* No worker, three WorkItems in the closed queue, main waits on resultChan.
C18_Witness ==
    /\ numOfWorker = -1
    /\ pc = "aggregate"
    /\ numberOfUsers = 3
    /\ Len(inputUserChan) = 3
    /\ chanClosed
    /\ received = 0

(***************************************************************************)
(* C19: the result channel is unbuffered.  The number of WorkItems taken   *)
(* from the queue minus the number of outcomes the aggregator has received *)
(* never exceeds the worker count: it is the number of workers that hold a *)
(* WorkItem.  A worker that takes a WorkItem from the queue has handed the *)
(* outcome of its previous WorkItem to the aggregator.                     *)
(***************************************************************************)
Holding == {w \in Workers : wpc[w] \in {"call", "wait", "send"}}

TakesNext(w) ==
    /\ wpc[w] = "range"
    /\ wpc'[w] = "call"

C19_TakenMinusReceivedAtMostWorkers ==
    /\ [](/\ SumSeq(taken) - OutcomesReceived <= WorkerCount
          /\ SumSeq(taken) - OutcomesReceived = Cardinality(Holding)
          /\ received = OutcomesReceived)
    /\ [][\A w \in Workers :
            TakesNext(w) =>
                \/ wUser[w] = NoUser
                \/ /\ Len(outcomes[wUser[w].id]) = 1
                   /\ received >= 1
                   /\ wUser'[w].id # wUser[w].id]_vars

\* Both workers hold a WorkItem, one of them its second.
C19_Witness ==
    /\ numOfWorker = 2
    /\ SumSeq(taken) = 3
    /\ OutcomesReceived = 1
    /\ Cardinality(Holding) = 2

(***************************************************************************)
(* C20: outcomes are never mixed between users or accounts.  Every         *)
(* WorkItem carries the accountId and the client of one account of the     *)
(* list, whose ListUsers listing has its user; a WorkItem in the queue or  *)
(* in a worker's hands is the WorkItem main submitted; every Found outcome *)
(* carries the userName and accountId of its WorkItem and only keys that   *)
(* ListAccessKeys returns for that user through that client; a traversal   *)
(* starts without a marker and with an empty accumulator, for the users of *)
(* an account as for the keys of a user.                                   *)
(***************************************************************************)
\* The WorkItem is of account record a: its accountId, its client, one of its users.
OfAccount(item, a) ==
    /\ item.accountId = getAccountId(csvAccountRoleList[a])
    /\ item.iamClient = stsRoleAccount(getRoleARN(csvAccountRoleList[a]))
    /\ item.name \in Range(Flatten(iamUsers(item.iamClient)))

\* The keys ListAccessKeys returns for the WorkItem's user through its client.
KeysOf(item) == Range(toAccessKeys(Flatten(iamKeys(item.iamClient, item.name))))

Submitted(u) ==
    /\ u.id \in 1..Len(inputUserList)
    /\ u.name = inputUserList[u.id].name
    /\ u.accountId = inputUserList[u.id].accountId
    /\ u.iamClient = inputUserList[u.id].iamClient

C20_OutcomesNeverMixed ==
    /\ \A k \in 1..Len(inputUserList) :
          \E a \in 1..Len(csvAccountRoleList) : OfAccount(inputUserList[k], a)
    /\ \A k \in 1..Len(inputUserChan) : Submitted(inputUserChan[k])
    /\ \A w \in Workers :
          wUser[w] # NoUser =>
              /\ Submitted(wUser[w])
              /\ wpc[w] \in {"call", "wait", "send"} =>
                    Range(toAccessKeys(wKeys[w])) \subseteq KeysOf(wUser[w])
              /\ (\/ wpc[w] = "call" /\ pagesRequested[wUser[w].id] = 0
                  \/ wpc[w] = "wait" /\ pagesRequested[wUser[w].id] = 1) =>
                    /\ wMarker[w] = NoMarker
                    /\ wKeys[w] = <<>>
    /\ \A i \in WorkItems :
          \A n \in 1..Len(outcomes[i]) :
              LET o == outcomes[i][n]
              IN  ~o.isNil =>
                     /\ o.name = inputUserList[i].name
                     /\ o.accountId = inputUserList[i].accountId
                     /\ Range(o.accessKeys) \subseteq KeysOf(inputUserList[i])
    /\ (pc = "listUsers" /\ remoteCalls.ListUsers = UserPagesListed(acct - 1)) =>
          /\ listUsersMarker = NoMarker
          /\ assumeRoleIAMSvc = stsRoleAccount(getRoleARN(csvAccountRoleList[acct]))

\* A worker that has sent the keys of a user of account B, found on two pages,
\* starts on a user of account A; the outcome received carries account B.
C20_Witness ==
    \E w \in Workers :
        /\ wpc[w] = "call"
        /\ wUser[w].accountId = AccountA
        /\ pagesRequested[wUser[w].id] = 0
        /\ \E i \in WorkItems :
              /\ Len(outcomes[i]) = 1
              /\ outcomes[i][1].accountId = AccountB
              /\ Len(outcomes[i][1].accessKeys) = 2
              /\ \A v \in Workers \ {w} : wUser[v].id # i

====
